---- MODULE Spec2Model ----
(***************************************************************************)
(* Card grading pipeline of rapid-card-lister: analyzeCard and the helpers *)
(* it calls (extractCardText, preprocessImage, the four score functions).  *)
(*                                                                         *)
(* Strings are sequences of one-character strings, so that trimming,       *)
(* lower-casing, substring search and the regular expressions of the       *)
(* source are computed character by character.  The empty string is <<>>.  *)
(* Floating point numbers are records [nan, v]: v is the value in          *)
(* thousandths (fixed point), nan marks the JavaScript NaN.                *)
(***************************************************************************)
EXTENDS Integers, Sequences, FiniteSets, TLC

(***************************************************************************)
(* Bounds of the model                                                     *)
(***************************************************************************)
\* longest recognized text, in raw lines, that the text extractor is given
MaxLines == 4
\* side of the normalized grid (224 in the source, scaled down)
GridSize == 4
\* side of a corner region (32 in the source, scaled down with the grid)
CornerSize == 1
\* image uploads handled by the page in one behaviour
MaxUploads == 2

(***************************************************************************)
(* Characters and JavaScript string primitives                             *)
(***************************************************************************)
UpperCase == <<"A","B","C","D","E","F","G","H","I","J","K","L","M",
               "N","O","P","Q","R","S","T","U","V","W","X","Y","Z">>
LowerCase == <<"a","b","c","d","e","f","g","h","i","j","k","l","m",
               "n","o","p","q","r","s","t","u","v","w","x","y","z">>

Digits == {"0","1","2","3","4","5","6","7","8","9"}
WhiteSpace == {" ", "\t"}
NewLine == "\n"

IsDigit(c) == c \in Digits
IsSpace(c) == c \in WhiteSpace

\* String.prototype.toLowerCase, one character
LowerOf ==
  [c \in {UpperCase[i] : i \in 1..26} |-> LowerCase[CHOOSE i \in 1..26 : UpperCase[i] = c]]

ToLowerChar(c) == IF c \in DOMAIN LowerOf THEN LowerOf[c] ELSE c

\* String.prototype.toLowerCase
ToLowerCase(s) == [i \in 1..Len(s) |-> ToLowerChar(s[i])]

\* s.startsWith(sub, i) with 1-based i
StartsAt(s, sub, i) ==
  /\ i >= 1
  /\ i + Len(sub) - 1 <= Len(s)
  /\ \A k \in 1..Len(sub) : s[i + k - 1] = sub[k]

\* String.prototype.includes
Includes(s, sub) == \E i \in 1..(Len(s) + 1) : StartsAt(s, sub, i)

\* suffix of s from position i on (s.slice(i-1))
Rest(s, i) == IF i > Len(s) THEN <<>> ELSE SubSeq(s, i, Len(s))

RECURSIVE TrimStart(_)
TrimStart(s) ==
  IF s # <<>> /\ IsSpace(Head(s)) THEN TrimStart(Tail(s)) ELSE s

RECURSIVE TrimEnd(_)
TrimEnd(s) ==
  IF s # <<>> /\ IsSpace(s[Len(s)]) THEN TrimEnd(SubSeq(s, 1, Len(s) - 1)) ELSE s

\* String.prototype.trim
Trim(s) == TrimEnd(TrimStart(s))

\* text.split('\n'): the pieces between the newline characters
RECURSIVE SplitFrom(_, _, _)
SplitFrom(s, i, cur) ==
  IF i > Len(s) THEN <<cur>>
  ELSE IF s[i] = NewLine THEN <<cur>> \o SplitFrom(s, i + 1, <<>>)
  ELSE SplitFrom(s, i + 1, Append(cur, s[i]))

SplitLines(s) == SplitFrom(s, 1, <<>>)

\* lines.join('\n'), the inverse used to build recognized texts
RECURSIVE JoinLines(_)
JoinLines(ls) ==
  IF ls = <<>> THEN <<>>
  ELSE IF Len(ls) = 1 THEN ls[1]
  ELSE ls[1] \o <<NewLine>> \o JoinLines(Tail(ls))

\* Array.prototype.filter(Boolean) on strings: drops the empty ones
RECURSIVE FilterNonEmpty(_)
FilterNonEmpty(ls) ==
  IF ls = <<>> THEN <<>>
  ELSE IF Head(ls) = <<>> THEN FilterNonEmpty(Tail(ls))
  ELSE <<Head(ls)>> \o FilterNonEmpty(Tail(ls))

\* text.split('\n').map(line => line.trim()).filter(Boolean)
TextLines(text) ==
  LET raw == SplitLines(text)
  IN  FilterNonEmpty([i \in 1..Len(raw) |-> Trim(raw[i])])

(***************************************************************************)
(* Regular expressions of extractCardText                                  *)
(***************************************************************************)
\* end of the maximal digit run that starts at position i (i-1 if none)
RECURSIVE DigitRunEnd(_, _)
DigitRunEnd(s, i) ==
  IF i <= Len(s) /\ IsDigit(s[i]) THEN DigitRunEnd(s, i + 1) ELSE i - 1

\* line.match(/\d{3,}/) is not null
HasDigitRun3(s) ==
  \E i \in 1..Len(s) : DigitRunEnd(s, i) >= i + 2

\* line.match(/(\d+\/\d+|\d+)/): match[0], or NoMatch.  The match starts at
\* the leftmost digit; there the first alternative (digits/digits) is tried
\* before the bare digit run.
NoMatch == <<"<null>">>

\* position of the first digit at or after i, 0 if there is none
RECURSIVE FirstDigitFrom(_, _)
FirstDigitFrom(s, i) ==
  IF i > Len(s) THEN 0
  ELSE IF IsDigit(s[i]) THEN i
  ELSE FirstDigitFrom(s, i + 1)

NumberPatternMatch(s) ==
  LET i == FirstDigitFrom(s, 1)
      j == DigitRunEnd(s, i)
  IN  IF i = 0 THEN NoMatch
      ELSE IF j + 2 <= Len(s) /\ s[j + 1] = "/" /\ IsDigit(s[j + 2])
           THEN SubSeq(s, i, DigitRunEnd(s, j + 2))
           ELSE SubSeq(s, i, j)

\* length of the marker (set|series|(c)) matched at position i under the i
\* flag, 0 if none matches there; alternatives are tried in source order.
\* low is the line in lower case.
MarkerSet == <<"s","e","t">>
MarkerSeries == <<"s","e","r","i","e","s">>
CopyrightMark == "©"

MarkerLenAt(low, i) ==
  IF StartsAt(low, MarkerSet, i) THEN 3
  ELSE IF StartsAt(low, MarkerSeries, i) THEN 6
  ELSE IF i <= Len(low) /\ low[i] = CopyrightMark THEN 1
  ELSE 0

\* position of the first marker at or after i, 0 if there is none
RECURSIVE FirstMarkerFrom(_, _)
FirstMarkerFrom(low, i) ==
  IF i > Len(low) THEN 0
  ELSE IF MarkerLenAt(low, i) > 0 THEN i
  ELSE FirstMarkerFrom(low, i + 1)

\* line.match(/(set|series|(c).*?)\s*(.*)/i): match[2], or NoMatch.  The
\* lazy .*? after the copyright mark stays empty, \s* takes the white space
\* and the last group takes the rest of the line.
SetPatternMatch(s) ==
  LET low == ToLowerCase(s)
      i == FirstMarkerFrom(low, 1)
  IN  IF i = 0 THEN NoMatch
      ELSE TrimStart(Rest(s, i + MarkerLenAt(low, i)))

(***************************************************************************)
(* extractCardText, after the OCR call returned `text`                     *)
(***************************************************************************)
Str_year == <<"y","e","a","r">>
Str_season == <<"s","e","a","s","o","n">>
UnknownCard == <<"U","n","k","n","o","w","n"," ","C","a","r","d">>
UnknownSet == <<"U","n","k","n","o","w","n"," ","S","e","t">>
Unknown == <<"U","n","k","n","o","w","n">>

sportKeywords ==
  << <<"r","o","o","k","i","e">>, <<"s","e","a","s","o","n">>,
     <<"s","t","a","t","s">>, <<"t","e","a","m">>, <<"r","e","c","o","r","d">> >>
tradingKeywords ==
  << <<"p","o","k","e","m","o","n">>, <<"m","a","g","i","c">>,
     <<"y","u","g","i","o","h">>, <<"m","t","g">> >>

\* the filter of possibleNames
IsPossibleName(line) ==
  LET low == ToLowerCase(line)
  IN  /\ Len(line) > 3
      /\ ~Includes(line, <<CopyrightMark>>)
      /\ ~HasDigitRun3(line)
      /\ ~Includes(low, MarkerSet)
      /\ ~Includes(low, MarkerSeries)

\* lines.slice(0, 3).filter(...), then possibleNames[0] or the initial ''
RECURSIVE FirstPossibleName(_)
FirstPossibleName(ls) ==
  IF ls = <<>> THEN <<>>
  ELSE IF IsPossibleName(Head(ls)) THEN Head(ls)
  ELSE FirstPossibleName(Tail(ls))

\* variant: the filter runs over all lines instead of the first three
ExtractNameAnyLine(lines) == FirstPossibleName(lines)

ExtractName(lines) ==
  FirstPossibleName(SubSeq(lines, 1, IF Len(lines) < 3 THEN Len(lines) ELSE 3))

\* variant: the year/season test is left out
RECURSIVE ExtractNumberNoSkip(_)
ExtractNumberNoSkip(ls) ==
  IF ls = <<>> THEN <<>>
  ELSE IF NumberPatternMatch(Head(ls)) # NoMatch THEN NumberPatternMatch(Head(ls))
  ELSE ExtractNumberNoSkip(Tail(ls))

\* the for loop over lines with numberPattern, break at the first hit
RECURSIVE ExtractNumber(_)
ExtractNumber(ls) ==
  IF ls = <<>> THEN <<>>
  ELSE LET match == NumberPatternMatch(Head(ls))
           low == ToLowerCase(Head(ls))
       IN  IF match # NoMatch /\ ~Includes(low, Str_year) /\ ~Includes(low, Str_season)
           THEN match
           ELSE ExtractNumber(Tail(ls))

\* variant: the loop has no break, so the last matching line wins
RECURSIVE ExtractSetNoBreak(_)
ExtractSetNoBreak(ls) ==
  IF ls = <<>> THEN <<>>
  ELSE LET later == ExtractSetNoBreak(Tail(ls))
           match == SetPatternMatch(Head(ls))
       IN  IF later # <<>> THEN later
           ELSE IF match # NoMatch
                THEN IF Trim(match) # <<>> THEN Trim(match) ELSE UnknownSet
                ELSE <<>>

\* the for loop over lines with setPattern, break at the first hit
RECURSIVE ExtractSet(_)
ExtractSet(ls) ==
  IF ls = <<>> THEN <<>>
  ELSE LET match == SetPatternMatch(Head(ls))
       IN  IF match # NoMatch
           THEN IF Trim(match) # <<>> THEN Trim(match) ELSE UnknownSet
           ELSE ExtractSet(Tail(ls))

\* variant: the trading keywords are tested before the sports keywords
ClassifyTradingFirst(text) ==
  LET textLower == ToLowerCase(text)
  IN  IF \E k \in 1..Len(tradingKeywords) : Includes(textLower, tradingKeywords[k])
      THEN "trading"
      ELSE IF \E k \in 1..Len(sportKeywords) : Includes(textLower, sportKeywords[k])
      THEN "sports"
      ELSE "unset"

\* the keyword classification; "unset" stands for an absent cardType
ClassifyCardType(text) ==
  LET textLower == ToLowerCase(text)
  IN  IF \E k \in 1..Len(sportKeywords) : Includes(textLower, sportKeywords[k])
      THEN "sports"
      ELSE IF \E k \in 1..Len(tradingKeywords) : Includes(textLower, tradingKeywords[k])
      THEN "trading"
      ELSE "unset"

\* the try block of extractCardText once recognize() returned `text`
ParseCardText(text) ==
  LET lines == TextLines(text)
  IN  [ name        |-> ExtractName(lines),
        set         |-> ExtractSet(lines),
        number      |-> ExtractNumber(lines),
        isConfirmed |-> FALSE,
        cardType    |-> ClassifyCardType(text) ]

\* the catch block of extractCardText
FallbackDetails ==
  [ name        |-> UnknownCard,
    set         |-> UnknownSet,
    number      |-> Unknown,
    isConfirmed |-> FALSE,
    cardType    |-> "unset" ]

(***************************************************************************)
(* Numbers: JavaScript numbers in fixed point, with NaN                    *)
(***************************************************************************)
\* one unit is a thousandth: the number 1.0 is Num(Unit)
Unit == 10 * 10 * 10

NaN == [nan |-> TRUE, v |-> 0]
Num(x) == [nan |-> FALSE, v |-> x]

FAdd(a, b) == IF a.nan \/ b.nan THEN NaN ELSE Num(a.v + b.v)
FSub(a, b) == IF a.nan \/ b.nan THEN NaN ELSE Num(a.v - b.v)
\* product of two fixed point values, split so that it stays in range
MulFix(x, y) == (x \div Unit) * y + ((x % Unit) * y) \div Unit
FMul(a, b) == IF a.nan \/ b.nan THEN NaN ELSE Num(MulFix(a.v, b.v))
FDiv(a, b) == IF a.nan \/ b.nan \/ b.v = 0 THEN NaN ELSE Num((a.v * Unit) \div b.v)

RECURSIVE SqrtIter(_, _)
SqrtIter(n, x) ==
  LET y == (x + n \div x) \div 2
  IN  IF y >= x THEN x ELSE SqrtIter(n, y)

\* largest r with r * r <= n
ISqrt(n) == IF n <= 0 THEN 0 ELSE SqrtIter(n, n)

\* Math.sqrt; large arguments are taken at unit precision to stay in range
MathSqrt(a) ==
  IF a.nan \/ a.v < 0 THEN NaN
  ELSE IF a.v <= 2000 * Unit THEN Num(ISqrt(a.v * Unit))
  ELSE Num(ISqrt(a.v \div Unit) * Unit)

\* Math.max and Math.min return NaN as soon as one argument is NaN
MathMax(a, b) == IF a.nan \/ b.nan THEN NaN ELSE IF a.v >= b.v THEN a ELSE b
MathMin(a, b) == IF a.nan \/ b.nan THEN NaN ELSE IF a.v <= b.v THEN a ELSE b

\* typedArray[i] with a 0-based index: undefined past the end, which
\* arithmetic turns into NaN
ArrayGet(arr, i) == IF i + 1 <= Len(arr) THEN arr[i + 1] ELSE NaN

\* Number(x.toFixed(1)): the nearest tenth, the larger one on a tie
ToFixed1(a) ==
  IF a.nan THEN NaN
  ELSE IF a.v >= 0
       THEN Num(((a.v * 10 + Unit \div 2) \div Unit) * (Unit \div 10))
       ELSE Num(0 - ((((0 - a.v) * 10 + Unit \div 2) \div Unit) * (Unit \div 10)))

(***************************************************************************)
(* Tensors: the normalized grid is tensor[row][column][channel], values in *)
(* thousandths between 0 and Unit                                          *)
(***************************************************************************)
Rows == 1..GridSize

RECURSIVE SumUpTo(_, _)
SumUpTo(s, n) == IF n = 0 THEN 0 ELSE s[n] + SumUpTo(s, n - 1)

SumSeq(s) == SumUpTo(s, Len(s))

\* tensor.mean() over all entries of a flat list
Mean(s) == SumSeq(s) \div Len(s)

\* all entries of a 2-D map, row by row
Flatten(g) ==
  [k \in 1..(GridSize * GridSize) |->
     g[((k - 1) \div GridSize) + 1][((k - 1) % GridSize) + 1]]

\* all entries of the rank-3 tensor
FlattenChannels(t) ==
  [k \in 1..(GridSize * GridSize * 3) |->
     t[((k - 1) \div (3 * GridSize)) + 1][(((k - 1) \div 3) % GridSize) + 1][((k - 1) % 3) + 1]]

\* tensor.mean(-1): the average of the three channels
Grayscale(t) ==
  [i \in Rows |-> [j \in Rows |-> (t[i][j][1] + t[i][j][2] + t[i][j][3]) \div 3]]

sobelHKernel == << <<-1, 0, 1>>, <<-2, 0, 2>>, <<-1, 0, 1>> >>
sobelVKernel == << <<-1, -2, -1>>, <<0, 0, 0>>, <<1, 2, 1>> >>
laplacianKernel == << <<0, 1, 0>>, <<1, -4, 1>>, <<0, 1, 0>> >>

\* the input of a 'same' convolution: zero outside the grid
Padded(g, i, j) == IF i \in Rows /\ j \in Rows THEN g[i][j] ELSE 0

\* one entry of tf.conv2d(g, k, 1, 'same') with a 3x3 kernel (a
\* cross-correlation: the kernel is not flipped)
ConvAt(g, k, i, j) ==
    k[1][1] * Padded(g, i - 1, j - 1) + k[1][2] * Padded(g, i - 1, j) + k[1][3] * Padded(g, i - 1, j + 1)
  + k[2][1] * Padded(g, i, j - 1)     + k[2][2] * Padded(g, i, j)     + k[2][3] * Padded(g, i, j + 1)
  + k[3][1] * Padded(g, i + 1, j - 1) + k[3][2] * Padded(g, i + 1, j) + k[3][3] * Padded(g, i + 1, j + 1)

\* tf.conv2d(g, k, 1, 'same')
Conv2dSame(g, k) == [i \in Rows |-> [j \in Rows |-> ConvAt(g, k, i, j)]]

\* sqrt(h^2 + v^2) of one entry
Magnitude(h, v) == ISqrt(h * h + v * v)

\* tf.sqrt(tf.add(tf.square(sobelH), tf.square(sobelV)))
GradientMagnitude(t) ==
  LET grayscale == Grayscale(t)
      sobelH == Conv2dSame(grayscale, sobelHKernel)
      sobelV == Conv2dSame(grayscale, sobelVKernel)
  IN  [i \in Rows |-> [j \in Rows |-> Magnitude(sobelH[i][j], sobelV[i][j])]]

\* edges.slice([r0, c0], [CornerSize, CornerSize]) with 0-based offsets
Slice(g, r0, c0) ==
  [k \in 1..(CornerSize * CornerSize) |->
     g[r0 + ((k - 1) \div CornerSize) + 1][c0 + ((k - 1) % CornerSize) + 1]]

\* tf.moments(x) without axes: one mean and one variance over all entries
SquaredDeviation(x, m) == MulFix(x - m, x - m)

Moments(s) ==
  LET m == Mean(s)
  IN  [ mean     |-> <<Num(m)>>,
        variance |-> <<Num(Mean([k \in 1..Len(s) |-> SquaredDeviation(s[k], m)]))>> ]

(***************************************************************************)
(* The four feature score functions                                        *)
(***************************************************************************)
\* the x and y of idealCenter
IdealCenter == 112

Pow2(a) == FMul(a, a)

calculateCentering(tensor) ==
  LET center == Moments(FlattenChannels(tensor)).mean
      distance == MathSqrt(FAdd(Pow2(FSub(ArrayGet(center, 0), Num(IdealCenter * Unit))),
                                Pow2(FSub(ArrayGet(center, 1), Num(IdealCenter * Unit)))))
  IN  MathMax(Num(0), FSub(Num(10 * Unit), FDiv(distance, Num((224 * Unit) \div 10))))

calculateCornersScore(tensor) ==
  LET edges == GradientMagnitude(tensor)
      far == GridSize - CornerSize
      cornerRegions == << Slice(edges, 0, 0), Slice(edges, 0, far),
                          Slice(edges, far, 0), Slice(edges, far, far) >>
      cornerScores == [r \in 1..4 |->
                         MathMin(Num(10 * Unit), FMul(Num(Mean(cornerRegions[r])), Num(20 * Unit)))]
  IN  FDiv(FAdd(FAdd(FAdd(FAdd(Num(0), cornerScores[1]), cornerScores[2]),
                     cornerScores[3]), cornerScores[4]),
           Num(4 * Unit))

calculateEdgesScore(tensor) ==
  LET score == Num(Mean(Flatten(GradientMagnitude(tensor))))
  IN  MathMin(Num(10 * Unit), FMul(score, Num(20 * Unit)))

calculateSurfaceScore(tensor) ==
  LET grayscale == Grayscale(tensor)
      laplacian == Conv2dSame(grayscale, laplacianKernel)
      variance == ArrayGet(Moments(Flatten(laplacian)).variance, 0)
  IN  MathMin(Num(10 * Unit), FMul(variance, Num(100 * Unit)))

(***************************************************************************)
(* Grade aggregation and the result record of analyzeCard                  *)
(***************************************************************************)
\* variant: the scores are rounded before they are averaged
GradeOfRounded(sc) ==
  FDiv(FAdd(FAdd(FAdd(ToFixed1(sc.centering), ToFixed1(sc.corners)), ToFixed1(sc.edges)),
            ToFixed1(sc.surface)),
       Num(4 * Unit))

\* (centeringScore + cornersScore + edgesScore + surfaceScore) / 4
GradeOf(sc) ==
  FDiv(FAdd(FAdd(FAdd(sc.centering, sc.corners), sc.edges), sc.surface), Num(4 * Unit))

\* the object literal returned after scoring
AssembleResult(sc, cd) ==
  [ centering   |-> ToFixed1(sc.centering),
    corners     |-> ToFixed1(sc.corners),
    edges       |-> ToFixed1(sc.edges),
    surface     |-> ToFixed1(sc.surface),
    grade       |-> ToFixed1(GradeOf(sc)),
    cardDetails |-> cd ]

\* the object literal returned when backImage is empty
TextOnlyResult(cd) ==
  [ centering   |-> Num(0),
    corners     |-> Num(0),
    edges       |-> Num(0),
    surface     |-> Num(0),
    grade       |-> Num(0),
    cardDetails |-> cd ]

(***************************************************************************)
(* Normalized grids the decode collaborator may deliver                    *)
(***************************************************************************)
Black == <<0, 0, 0>>
White == <<Unit, Unit, Unit>>
Tint == <<(3 * Unit) \div 5, 0, 0>>
Palette == {Black, White, Tint}

\* a rectangle of colour fg (the card) on a background bg
PaintRect(bg, fg, r1, r2, c1, c2) ==
  [i \in Rows |-> [j \in Rows |->
     IF r1 <= i /\ i <= r2 /\ c1 <= j /\ j <= c2 THEN fg ELSE bg]]

\* alternating pixels, the noise grid
Checker(a, b) ==
  [i \in Rows |-> [j \in Rows |-> IF (i + j) % 2 = 0 THEN a ELSE b]]

Grids ==
  { PaintRect(bg, fg, r1, r2, c1, c2) :
      bg \in Palette, fg \in Palette, r1 \in Rows, r2 \in Rows, c1 \in Rows, c2 \in Rows }
  \cup { Checker(a, b) : a \in Palette, b \in Palette }

(***************************************************************************)
(* Recognized texts the OCR collaborator may deliver                       *)
(***************************************************************************)
L_Pikachu == <<"P","i","k","a","c","h","u">>
L_Bob == <<"B","o","b">>
L_HP == <<"H","P"," ","1","2","0">>
L_BaseSet == <<"B","a","s","e"," ","S","e","t">>
L_Series == <<" ","S","E","R","I","E","S"," ","2"," ">>
L_Copy == <<"©","9","9"," ","p","o","k","e","m","o","n">>
L_Rookie == <<"R","O","O","K","I","E"," ","Y","e","a","r"," ","7">>
L_Num == <<"1","2","/","3","4"," ","m","t","g">>
L_Blank == <<" "," ">>

LineBank ==
  {L_Bob, L_HP, L_BaseSet, L_Series, L_Copy, L_Rookie, L_Num, L_Blank}

\* the lists of at most n raw lines
RECURSIVE LineLists(_)
LineLists(n) ==
  IF n = 0 THEN {<<>>}
  ELSE LineLists(n - 1)
         \cup { Append(ls, l) : ls \in {x \in LineLists(n - 1) : Len(x) = n - 1}, l \in LineBank }

\* every text of at most MaxLines lines of the bank
TextInputs == { JoinLines(ls) : ls \in LineLists(MaxLines) }

\* the texts used when the whole pipeline runs
OcrTexts ==
  { JoinLines(<<L_Pikachu, L_HP, L_Copy>>),
    JoinLines(<<L_Rookie, L_Num, L_Series>>),
    JoinLines(<<L_Bob, L_BaseSet>>),
    JoinLines(<<L_Num>>),
    JoinLines(<<L_Bob>>),
    <<>> }

\* the grids used when the whole pipeline runs
PipelineGrids ==
  { PaintRect(c, c, 1, 1, 1, 1) : c \in Palette }
  \cup { PaintRect(bg, fg, 2, GridSize - 1, 2, GridSize - 1) : bg \in Palette, fg \in Palette }
  \cup { Checker(Black, White), Checker(Black, Tint) }

(***************************************************************************)
(* Collaborators: Tesseract (OCR) and the browser image decoder            *)
(***************************************************************************)
EmptyImage == ""
\* a payload the browser cannot decode, or decodes to an image without area
CorruptImage == "corrupt.jpg"
NeverLoads(image) == image \in {EmptyImage, CorruptImage}
FrontImages == {EmptyImage, "front.jpg", CorruptImage}
BackImages == {EmptyImage, "back.jpg", CorruptImage}

\* what createWorker / recognize can do for an image: fail in either call or
\* deliver a text.  Nothing is recognized in an empty or corrupt payload.
OcrOutcomes(image) ==
  { [ok |-> FALSE, stage |-> "createWorker", text |-> <<>>],
    [ok |-> FALSE, stage |-> "recognize", text |-> <<>>] }
  \cup { [ok |-> TRUE, stage |-> "terminate", text |-> t] :
           t \in IF NeverLoads(image) THEN {<<>>} ELSE OcrTexts }

\* what loading the image can do: onerror, a loaded image without area, or
\* a loaded image, delivered here as its normalized grid.  An empty src
\* never loads; a corrupt payload fails in one of the two ways.
DecodeOutcomes(image) ==
  { [ok |-> FALSE, message |-> "Failed to load image", grid |-> <<>>] }
  \cup (IF image = EmptyImage THEN {}
        ELSE { [ok |-> FALSE, message |-> "Invalid image dimensions", grid |-> <<>>] })
  \cup (IF NeverLoads(image) THEN {}
        ELSE { [ok |-> TRUE, message |-> "", grid |-> g] : g \in PipelineGrids })

\* extractCardText: the try block on a recognized text, the catch block on
\* a failure of the worker
extractCardText(out) ==
  IF out.ok THEN ParseCardText(out.text) ELSE FallbackDetails

\* workers left alive by one extractCardText call: terminate() is skipped
\* when recognize() throws
WorkersLeaked(out) == IF ~out.ok /\ out.stage = "recognize" THEN 1 ELSE 0

\* searchTCGPlayer and searchSportsCard: both return null
NullMatch == [found |-> FALSE]
searchTCGPlayer(cardName, setName) == NullMatch
searchSportsCard(playerName, cardNumber) == NullMatch

(***************************************************************************)
(* Tensors each function creates and leaves undisposed when it returns     *)
(***************************************************************************)
\* preprocessImage: every link of the chain before squeeze() is a tensor of
\* its own and none is in a tidy
PreprocessBuffers ==
  {"preprocess.fromPixels", "preprocess.resizeNearestNeighbor", "preprocess.toFloat",
   "preprocess.expandDims", "preprocess.div"}

\* calculateCentering: the two results of tf.moments
CenteringBuffers == {"centering.moments.mean", "centering.moments.variance"}

\* calculateCornersScore: edges is disposed; the four slices and their four
\* means are not
CornersBuffers ==
  { "corners.region" \o r : r \in {"1", "2", "3", "4"} }
  \cup { "corners.region.mean" \o r : r \in {"1", "2", "3", "4"} }

\* calculateEdgesScore: the scalar that tf.tidy returns
EdgesBuffers == {"edges.edgeStrength"}

\* calculateSurfaceScore: laplacian is disposed; the results of tf.moments
\* are not
SurfaceBuffers == {"surface.moments.mean", "surface.moments.variance"}

(***************************************************************************)
(* State of one analyzeCard call                                           *)
(***************************************************************************)
VARIABLES
  pc,           \* where the call stands
  frontImage,   \* argument frontImage
  backImage,    \* argument backImage
  hasSink,      \* whether onProgress was passed
  events,       \* the calls of onProgress, in order
  calls,        \* the collaborator calls, in order
  ocr,          \* side -> what the OCR collaborator delivered
  details,      \* "front" -> frontDetails, "back" -> backDetails, "card" -> cardDetails
  liveWorkers,  \* Tesseract workers created and not terminated
  tensorFront,  \* <<grid>> while the normalized image is held, <<>> otherwise
  scores,       \* feature name -> unrounded score, once computed
  outcome,      \* pending, the returned record, or the thrown error
  liveBuffers,  \* tensors created besides tensorFront and not disposed
  loaded,       \* <<dec>> once the image decoder has answered with dec, <<>> before
  images,       \* page state images: side -> payload or Null
  analysis,     \* page state analysis: Null or the record of the last full analysis
  salesHistory, \* page state salesHistory
  isAnalyzing,  \* page state isAnalyzing
  analysisSteps,\* page state analysisSteps
  runs,         \* the analyzeCard calls the page has started, in start order
  uploads       \* uploads handled so far

pipeVars == << pc, frontImage, backImage, hasSink, events, calls, ocr, details,
               liveWorkers, tensorFront, scores, outcome, liveBuffers, loaded >>
pageVars == << images, analysis, salesHistory, isAnalyzing, analysisSteps, runs, uploads >>
vars == << pipeVars, pageVars >>

\* the page as it is mounted: the initial values of its useState hooks
Null == "null"
PageIdle ==
  /\ images = [front |-> Null, back |-> Null]
  /\ analysis = Null
  /\ salesHistory = <<>>
  /\ isAnalyzing = FALSE
  /\ analysisSteps = <<>>
  /\ runs = <<>>
  /\ uploads = 0

Pending == [kind |-> "pending"]
Returned(r) == [kind |-> "result", value |-> r]
Thrown(m) == [kind |-> "error", message |-> m]

\* onProgress?.(step, details)
Emit(sink, es, step, text) ==
  IF sink THEN Append(es, [step |-> step, details |-> text]) ELSE es

Init ==
  /\ pc = "idle"
  /\ frontImage = EmptyImage
  /\ backImage = EmptyImage
  /\ hasSink = FALSE
  /\ events = <<>>
  /\ calls = <<>>
  /\ ocr = <<>>
  /\ details = <<>>
  /\ liveWorkers = 0
  /\ tensorFront = <<>>
  /\ scores = <<>>
  /\ outcome = Pending
  /\ liveBuffers = {}
  /\ loaded = <<>>
  /\ PageIdle

(***************************************************************************)
(* analyzeCard, one action per stretch between two awaits or stages        *)
(***************************************************************************)
\* variant: the back pass overwrites number and set unconditionally
MergeBackAlways(card, back) ==
  [card EXCEPT !.number = back.number, !.set = back.set]

\* variant: the whole back record is spread over cardDetails
MergeBackSpread(card, back) ==
  [card EXCEPT !.name = back.name,
               !.cardType = back.cardType,
               !.number = IF back.number # <<>> THEN back.number ELSE card.number,
               !.set = IF back.set # <<>> THEN back.set ELSE card.set]

\* the merge of the back pass into cardDetails
MergeBack(card, back) ==
  [card EXCEPT !.number = IF back.number # <<>> THEN back.number ELSE card.number,
               !.set = IF back.set # <<>> THEN back.set ELSE card.set]

\* the card identification block: a match would be spread over cardDetails
IdentifyCard(card) ==
  LET match == IF card.cardType = "trading" THEN searchTCGPlayer(card.name, card.set)
               ELSE IF card.cardType = "sports" THEN searchSportsCard(card.name, card.number)
               ELSE NullMatch
  IN  IF match.found THEN [card EXCEPT !.isConfirmed = TRUE] ELSE card

\* variant: onProgress is called without the optional call, which throws
\* when no sink was passed
StartRequiresSink(front, back, sink) ==
  /\ pc = "idle"
  /\ frontImage' = front
  /\ backImage' = back
  /\ hasSink' = sink
  /\ events' = Emit(sink, events, "Text Extraction", <<"Reading front card text...">>)
  /\ pc' = IF sink THEN "frontText" ELSE "failed"
  /\ outcome' = IF sink THEN outcome ELSE Thrown(<<"onProgress is not a function">>)
  /\ UNCHANGED << calls, ocr, details, liveWorkers, tensorFront, scores, liveBuffers >>
  /\ UNCHANGED loaded
  /\ UNCHANGED pageVars

\* entry: the first progress event, then extractCardText(frontImage) starts
Start(front, back, sink) ==
  /\ pc = "idle"
  /\ frontImage' = front
  /\ backImage' = back
  /\ hasSink' = sink
  /\ events' = Emit(sink, events, "Text Extraction", <<"Reading front card text...">>)
  /\ pc' = "frontText"
  /\ UNCHANGED << calls, ocr, details, liveWorkers, tensorFront, scores, outcome, liveBuffers >>
  /\ UNCHANGED loaded
  /\ UNCHANGED pageVars

\* variant: a failure of the OCR collaborator is rethrown by analyzeCard
ExtractFrontRethrow(out) ==
  /\ pc = "frontText"
  /\ calls' = Append(calls, <<"ocr", frontImage>>)
  /\ ocr' = ("front" :> out)
  /\ liveWorkers' = liveWorkers + WorkersLeaked(out)
  /\ details' = ("front" :> extractCardText(out)) @@ ("card" :> extractCardText(out))
  /\ events' = IF out.ok /\ backImage # EmptyImage
               THEN Emit(hasSink, events, "Text Extraction", <<"Reading back card text...">>)
               ELSE events
  /\ IF ~out.ok
     THEN /\ outcome' = Thrown(<<"Text extraction error", out.stage>>)
          /\ pc' = "failed"
     ELSE /\ outcome' = outcome
          /\ pc' = IF backImage # EmptyImage THEN "backText" ELSE "identify"
  /\ UNCHANGED << frontImage, backImage, hasSink, tensorFront, scores, liveBuffers >>
  /\ UNCHANGED loaded
  /\ UNCHANGED pageVars

\* extractCardText(frontImage) returns; the back pass starts if there is a back image
ExtractFront(out) ==
  /\ pc = "frontText"
  /\ calls' = Append(calls, <<"ocr", frontImage>>)
  /\ ocr' = ("front" :> out)
  /\ liveWorkers' = liveWorkers + WorkersLeaked(out)
  /\ details' = ("front" :> extractCardText(out)) @@ ("card" :> extractCardText(out))
  /\ IF backImage # EmptyImage
     THEN /\ events' = Emit(hasSink, events, "Text Extraction", <<"Reading back card text...">>)
          /\ pc' = "backText"
     ELSE /\ events' = events
          /\ pc' = "identify"
  /\ UNCHANGED << frontImage, backImage, hasSink, tensorFront, scores, outcome, liveBuffers >>
  /\ UNCHANGED loaded
  /\ UNCHANGED pageVars

\* variant: the extractor keeps its scan position between calls, so that
\* the second extraction resumes after the first line of its text
ExtractBackResumed(out) ==
  LET ls == SplitLines(out.text)
      resumed == IF out.ok /\ Len(ls) > 0
                 THEN [out EXCEPT !.text = JoinLines(Tail(ls))]
                 ELSE out
  IN  /\ pc = "backText"
      /\ calls' = Append(calls, <<"ocr", backImage>>)
      /\ ocr' = ocr @@ ("back" :> out)
      /\ liveWorkers' = liveWorkers + WorkersLeaked(out)
      /\ details' = ("front" :> details["front"]) @@ ("back" :> extractCardText(resumed))
                      @@ ("card" :> MergeBack(details["card"], extractCardText(resumed)))
      /\ pc' = "identify"
      /\ UNCHANGED << frontImage, backImage, hasSink, events, tensorFront, scores, outcome,
                      liveBuffers >>
      /\ UNCHANGED loaded
      /\ UNCHANGED pageVars

\* extractCardText(backImage) returns and is merged
ExtractBack(out) ==
  /\ pc = "backText"
  /\ calls' = Append(calls, <<"ocr", backImage>>)
  /\ ocr' = ocr @@ ("back" :> out)
  /\ liveWorkers' = liveWorkers + WorkersLeaked(out)
  /\ details' = ("front" :> details["front"]) @@ ("back" :> extractCardText(out))
                  @@ ("card" :> MergeBack(details["card"], extractCardText(out)))
  /\ pc' = "identify"
  /\ UNCHANGED << frontImage, backImage, hasSink, events, tensorFront, scores, outcome, liveBuffers >>
  /\ UNCHANGED loaded
  /\ UNCHANGED pageVars

\* variant: the early return for an empty backImage is missing
IdentifyNoEarlyReturn ==
  /\ pc = "identify"
  /\ details' = [details EXCEPT !["card"] = IdentifyCard(details["card"])]
  /\ events' = Emit(hasSink,
                    Emit(hasSink, events, "Card Identification", <<"Attempting to match card...">>),
                    "Text Extraction",
                    <<"Found card", details'["card"].name, details'["card"].isConfirmed>>)
  /\ pc' = "preprocess"
  /\ UNCHANGED << frontImage, backImage, hasSink, calls, ocr, liveWorkers, tensorFront,
                  scores, outcome, liveBuffers >>
  /\ UNCHANGED loaded
  /\ UNCHANGED pageVars

\* card identification, then the early return when backImage is empty,
\* otherwise preprocessImage(frontImage) starts
Identify ==
  /\ pc = "identify"
  /\ details' = [details EXCEPT !["card"] = IdentifyCard(details["card"])]
  /\ events' = Emit(hasSink,
                    Emit(hasSink, events, "Card Identification", <<"Attempting to match card...">>),
                    "Text Extraction",
                    <<"Found card", details'["card"].name, details'["card"].isConfirmed>>)
  /\ IF backImage = EmptyImage
     THEN /\ outcome' = Returned(TextOnlyResult(details'["card"]))
          /\ pc' = "done"
     ELSE /\ outcome' = outcome
          /\ pc' = "preprocess"
  /\ UNCHANGED << frontImage, backImage, hasSink, calls, ocr, liveWorkers, tensorFront, scores, liveBuffers >>
  /\ UNCHANGED loaded
  /\ UNCHANGED pageVars

\* variant: no onerror handler, the await of the load never completes when
\* the image fails to load
PreprocessNoOnError(dec) ==
  /\ pc = "preprocess"
  /\ calls' = Append(calls, <<"decode", frontImage>>)
  /\ loaded' = <<dec>>
  /\ IF dec.ok
     THEN /\ tensorFront' = <<dec.grid>>
          /\ liveBuffers' = liveBuffers \cup PreprocessBuffers
          /\ outcome' = outcome
          /\ pc' = "centering"
     ELSE /\ tensorFront' = tensorFront
          /\ liveBuffers' = liveBuffers
          /\ outcome' = IF dec.message = "Failed to load image" THEN outcome
                        ELSE Thrown(<<"Error preprocessing image", dec.message>>)
          /\ pc' = IF dec.message = "Failed to load image" THEN "loading" ELSE "failed"
  /\ UNCHANGED << frontImage, backImage, hasSink, events, ocr, details, liveWorkers, scores >>
  /\ UNCHANGED pageVars

\* variant: the catch block reports the failure to the sink before it rethrows
PreprocessLateEvent(dec) ==
  /\ pc = "preprocess"
  /\ calls' = Append(calls, <<"decode", frontImage>>)
  /\ loaded' = <<dec>>
  /\ IF dec.ok
     THEN /\ tensorFront' = <<dec.grid>>
          /\ liveBuffers' = liveBuffers \cup PreprocessBuffers
          /\ outcome' = outcome
          /\ events' = events
          /\ pc' = "centering"
     ELSE /\ tensorFront' = tensorFront
          /\ liveBuffers' = liveBuffers
          /\ outcome' = Thrown(<<"Error preprocessing image", dec.message>>)
          /\ events' = Emit(hasSink, events, "Image Processing", <<"Error analyzing card">>)
          /\ pc' = "failed"
  /\ UNCHANGED << frontImage, backImage, hasSink, ocr, details, liveWorkers, scores >>
  /\ UNCHANGED pageVars

\* variant: the image that is decoded and scored is the back image
PreprocessBackImage(dec) ==
  /\ pc = "preprocess"
  /\ dec \in DecodeOutcomes(backImage)
  /\ calls' = Append(calls, <<"decode", backImage>>)
  /\ IF dec.ok
     THEN /\ tensorFront' = <<dec.grid>>
          /\ liveBuffers' = liveBuffers \cup PreprocessBuffers
          /\ outcome' = outcome
          /\ pc' = "centering"
     ELSE /\ tensorFront' = tensorFront
          /\ liveBuffers' = liveBuffers
          /\ outcome' = Thrown(<<"Error preprocessing image", dec.message>>)
          /\ pc' = "failed"
  /\ loaded' = <<dec>>
  /\ UNCHANGED << frontImage, backImage, hasSink, events, ocr, details, liveWorkers, scores >>
  /\ UNCHANGED pageVars

\* preprocessImage(frontImage) returns the tensor or throws; the throw
\* leaves analyzeCard through its catch block, which rethrows
Preprocess(dec) ==
  /\ pc = "preprocess"
  /\ calls' = Append(calls, <<"decode", frontImage>>)
  /\ IF dec.ok
     THEN /\ tensorFront' = <<dec.grid>>
          /\ liveBuffers' = liveBuffers \cup PreprocessBuffers
          /\ outcome' = outcome
          /\ pc' = "centering"
     ELSE /\ tensorFront' = tensorFront
          /\ liveBuffers' = liveBuffers
          /\ outcome' = Thrown(<<"Error preprocessing image", dec.message>>)
          /\ pc' = "failed"
  /\ loaded' = <<dec>>
  /\ UNCHANGED << frontImage, backImage, hasSink, events, ocr, details, liveWorkers, scores >>
  /\ UNCHANGED pageVars

ScoreCentering ==
  /\ pc = "centering"
  /\ events' = Emit(hasSink, events, "Centering Analysis", <<"Calculating alignment...">>)
  /\ scores' = scores @@ ("centering" :> calculateCentering(tensorFront[1]))
  /\ pc' = "corners"
  /\ liveBuffers' = liveBuffers \cup CenteringBuffers
  /\ UNCHANGED << frontImage, backImage, hasSink, calls, ocr, details, liveWorkers,
                  tensorFront, outcome >>
  /\ UNCHANGED loaded
  /\ UNCHANGED pageVars

ScoreCorners ==
  /\ pc = "corners"
  /\ events' = Emit(hasSink, events, "Corner Analysis", <<"Evaluating corner conditions...">>)
  /\ scores' = scores @@ ("corners" :> calculateCornersScore(tensorFront[1]))
  /\ pc' = "edges"
  /\ liveBuffers' = liveBuffers \cup CornersBuffers
  /\ UNCHANGED << frontImage, backImage, hasSink, calls, ocr, details, liveWorkers,
                  tensorFront, outcome >>
  /\ UNCHANGED loaded
  /\ UNCHANGED pageVars

ScoreEdges ==
  /\ pc = "edges"
  /\ events' = Emit(hasSink, events, "Edge Detection", <<"Measuring edge sharpness...">>)
  /\ scores' = scores @@ ("edges" :> calculateEdgesScore(tensorFront[1]))
  /\ pc' = "surface"
  /\ liveBuffers' = liveBuffers \cup EdgesBuffers
  /\ UNCHANGED << frontImage, backImage, hasSink, calls, ocr, details, liveWorkers,
                  tensorFront, outcome >>
  /\ UNCHANGED loaded
  /\ UNCHANGED pageVars

\* the surface score, then the grade, tensorFront.dispose() and the return
ScoreSurface ==
  /\ pc = "surface"
  /\ events' = Emit(hasSink, events, "Surface Analysis", <<"Analyzing surface texture...">>)
  /\ scores' = scores @@ ("surface" :> calculateSurfaceScore(tensorFront[1]))
  /\ tensorFront' = <<>>
  /\ outcome' = Returned(AssembleResult(scores', details["card"]))
  /\ pc' = "done"
  /\ liveBuffers' = liveBuffers \cup SurfaceBuffers
  /\ UNCHANGED << frontImage, backImage, hasSink, calls, ocr, details, liveWorkers >>
  /\ UNCHANGED loaded
  /\ UNCHANGED pageVars

Next ==
  \/ \E front \in FrontImages, back \in BackImages, sink \in BOOLEAN : Start(front, back, sink)
  \/ \E out \in OcrOutcomes(frontImage) : ExtractFront(out)
  \/ \E out \in OcrOutcomes(backImage) : ExtractBack(out)
  \/ Identify
  \/ \E dec \in DecodeOutcomes(frontImage) : Preprocess(dec)
  \/ ScoreCentering
  \/ ScoreCorners
  \/ ScoreEdges
  \/ ScoreSurface

Spec == Init /\ [][Next]_vars

\* where a call that stands at an await, or in a synchronous stretch, goes
\* next
Successors(stage) ==
  CASE stage = "frontText" -> {"backText", "identify"}
    [] stage = "backText" -> {"identify"}
    [] stage = "identify" -> {"done", "preprocess"}
    [] stage = "preprocess" -> {"centering", "failed"}
    [] stage = "centering" -> {"corners"}
    [] stage = "corners" -> {"edges"}
    [] stage = "edges" -> {"surface"}
    [] stage = "surface" -> {"done"}
    [] OTHER -> {}

\* the call moves on: the awaited collaborator answers, or the synchronous
\* code runs
Advance == pc' \in Successors(pc)

\* the call under the assumption that every collaborator answers and the
\* event loop runs every continuation
SpecLive == Init /\ [][Next]_vars /\ WF_pc(Advance)

(***************************************************************************)
(* The text extractor alone: extractCardText on every text of the bank     *)
(***************************************************************************)
TextOutcomes ==
  { [ok |-> FALSE, stage |-> "createWorker", text |-> <<>>],
    [ok |-> FALSE, stage |-> "recognize", text |-> <<>>] }
  \cup { [ok |-> TRUE, stage |-> "terminate", text |-> t] : t \in TextInputs }

TextInit ==
  /\ pc = "text"
  /\ frontImage = "front.jpg"
  /\ backImage = EmptyImage
  /\ hasSink = FALSE
  /\ events = <<>>
  /\ calls = <<>>
  /\ ocr \in { ("front" :> out) : out \in TextOutcomes }
  /\ details = <<>>
  /\ liveWorkers = 0
  /\ tensorFront = <<>>
  /\ scores = <<>>
  /\ outcome = Pending
  /\ liveBuffers = {}
  /\ loaded = <<>>
  /\ PageIdle

\* extractCardText returns for the recognized text
TextExtract ==
  /\ pc = "text"
  /\ details' = ("front" :> extractCardText(ocr["front"]))
  /\ liveWorkers' = liveWorkers + WorkersLeaked(ocr["front"])
  /\ pc' = "parsed"
  /\ UNCHANGED << frontImage, backImage, hasSink, events, calls, ocr, tensorFront,
                  scores, outcome, liveBuffers >>
  /\ UNCHANGED loaded
  /\ UNCHANGED pageVars

TextNext == TextExtract

SpecText == TextInit /\ [][TextNext]_vars

(***************************************************************************)
(* The feature extractors alone: the four score functions on every grid    *)
(***************************************************************************)
FeatInit ==
  /\ pc = "features"
  /\ frontImage = "front.jpg"
  /\ backImage = "back.jpg"
  /\ hasSink = FALSE
  /\ events = <<>>
  /\ calls = <<>>
  /\ ocr = <<>>
  /\ details = <<>>
  /\ liveWorkers = 0
  /\ tensorFront \in { <<g>> : g \in Grids }
  /\ scores = <<>>
  /\ outcome = Pending
  /\ liveBuffers = {}
  /\ loaded = <<>>
  /\ PageIdle

FeatCentering ==
  /\ pc = "features"
  /\ "centering" \notin DOMAIN scores
  /\ scores' = scores @@ ("centering" :> calculateCentering(tensorFront[1]))
  /\ liveBuffers' = liveBuffers \cup CenteringBuffers
  /\ UNCHANGED << pc, frontImage, backImage, hasSink, events, calls, ocr, details,
                  liveWorkers, tensorFront, outcome >>
  /\ UNCHANGED loaded
  /\ UNCHANGED pageVars

\* variant: the corner extractor writes its gradient map into the shared grid
FeatCornersInPlace ==
  /\ pc = "features"
  /\ "corners" \notin DOMAIN scores
  /\ scores' = scores @@ ("corners" :> calculateCornersScore(tensorFront[1]))
  /\ liveBuffers' = liveBuffers \cup CornersBuffers
  /\ tensorFront' =
       << [i \in Rows |-> [j \in Rows |->
             LET m == GradientMagnitude(tensorFront[1])[i][j]
                 c == IF m > Unit THEN Unit ELSE m
             IN  <<c, c, c>>]] >>
  /\ UNCHANGED << pc, frontImage, backImage, hasSink, events, calls, ocr, details,
                  liveWorkers, outcome >>
  /\ UNCHANGED loaded
  /\ UNCHANGED pageVars

FeatCorners ==
  /\ pc = "features"
  /\ "corners" \notin DOMAIN scores
  /\ scores' = scores @@ ("corners" :> calculateCornersScore(tensorFront[1]))
  /\ liveBuffers' = liveBuffers \cup CornersBuffers
  /\ UNCHANGED << pc, frontImage, backImage, hasSink, events, calls, ocr, details,
                  liveWorkers, tensorFront, outcome >>
  /\ UNCHANGED loaded
  /\ UNCHANGED pageVars

FeatEdges ==
  /\ pc = "features"
  /\ "edges" \notin DOMAIN scores
  /\ scores' = scores @@ ("edges" :> calculateEdgesScore(tensorFront[1]))
  /\ liveBuffers' = liveBuffers \cup EdgesBuffers
  /\ UNCHANGED << pc, frontImage, backImage, hasSink, events, calls, ocr, details,
                  liveWorkers, tensorFront, outcome >>
  /\ UNCHANGED loaded
  /\ UNCHANGED pageVars

FeatSurface ==
  /\ pc = "features"
  /\ "surface" \notin DOMAIN scores
  /\ scores' = scores @@ ("surface" :> calculateSurfaceScore(tensorFront[1]))
  /\ liveBuffers' = liveBuffers \cup SurfaceBuffers
  /\ UNCHANGED << pc, frontImage, backImage, hasSink, events, calls, ocr, details,
                  liveWorkers, tensorFront, outcome >>
  /\ UNCHANGED loaded
  /\ UNCHANGED pageVars

FeatNext == FeatCentering \/ FeatCorners \/ FeatEdges \/ FeatSurface

SpecFeat == FeatInit /\ [][FeatNext]_vars

(***************************************************************************)
(* The aggregation alone: the grade and the rounding on sampled scores     *)
(***************************************************************************)
ScoreNames == {"centering", "corners", "edges", "surface"}

ScoreSamples ==
  { Num(0), Num(Unit \div 25), Num((2 * Unit) \div 25), Num(Unit \div 4),
    Num(4 * Unit), Num(6 * Unit), Num(8 * Unit), Num(10 * Unit), NaN }

AggInit ==
  /\ pc = "aggregate"
  /\ frontImage = "front.jpg"
  /\ backImage = "back.jpg"
  /\ hasSink = FALSE
  /\ events = <<>>
  /\ calls = <<>>
  /\ ocr = <<>>
  /\ details = ("card" :> FallbackDetails)
  /\ liveWorkers = 0
  /\ tensorFront = <<>>
  /\ scores \in [ScoreNames -> ScoreSamples]
  /\ outcome = Pending
  /\ liveBuffers = {}
  /\ loaded = <<>>
  /\ PageIdle

\* the grade and the returned record for the four scores
Aggregate ==
  /\ pc = "aggregate"
  /\ outcome' = Returned(AssembleResult(scores, details["card"]))
  /\ pc' = "done"
  /\ UNCHANGED << frontImage, backImage, hasSink, events, calls, ocr, details,
                  liveWorkers, tensorFront, scores, liveBuffers >>
  /\ UNCHANGED loaded
  /\ UNCHANGED pageVars

AggNext == Aggregate

SpecAgg == AggInit /\ [][AggNext]_vars

(***************************************************************************)
(* The page: uploads, the two progress sinks and the step list             *)
(***************************************************************************)
Step(step, text) == [step |-> step, details |-> text]

\* the onProgress calls of one analyzeCard call, in order; `decoded` says
\* whether preprocessImage delivered the tensor
ProgressSteps(back, decoded) ==
  << Step("Text Extraction", "Reading front card text...") >>
  \o (IF back # EmptyImage
      THEN << Step("Text Extraction", "Reading back card text...") >>
      ELSE <<>>)
  \o << Step("Card Identification", "Attempting to match card..."),
        Step("Text Extraction", "Found card") >>
  \o (IF back # EmptyImage /\ decoded
      THEN << Step("Centering Analysis", "Calculating alignment..."),
              Step("Corner Analysis", "Evaluating corner conditions..."),
              Step("Edge Detection", "Measuring edge sharpness..."),
              Step("Surface Analysis", "Analyzing surface texture...") >>
      ELSE <<>>)

Entry(step, text, completed) == [step |-> step, details |-> text, completed |-> completed]

\* the list a front upload sets
FrontStepList == << Entry("Text Extraction", "Reading card information...", FALSE) >>

\* the list a back upload sets
BackStepList ==
  << Entry("Text Extraction", "Reading card information...", FALSE),
     Entry("Image Processing", "Preparing images for analysis...", FALSE),
     Entry("Centering Analysis", "Calculating card centering...", FALSE),
     Entry("Surface Analysis", "Analyzing surface condition...", FALSE),
     Entry("Edge Detection", "Examining card edges...", FALSE),
     Entry("Corner Analysis", "Evaluating corner conditions...", FALSE),
     Entry("Market Research", "Gathering sales data...", FALSE) >>

\* prev.map(s => s.step === step ? { ...s, details, completed: true } : s)
MarkCompleted(prev, step, text) ==
  [k \in 1..Len(prev) |->
     IF prev[k].step = step THEN Entry(step, text, TRUE) ELSE prev[k]]

\* variant: the front sink appends an entry for every event
FrontSinkAppend(prev, step, text) == Append(prev, Entry(step, text, FALSE))

\* the updater of the sink passed on a front upload
FrontSink(prev, step, text) ==
  IF \E k \in 1..Len(prev) : prev[k].step = step
  THEN MarkCompleted(prev, step, text)
  ELSE Append(prev, Entry(step, text, FALSE))

\* the updater of the sink passed on a back upload
BackSink(prev, step, text) == MarkCompleted(prev, step, text)

SinkOf(type, prev, ev) ==
  IF type = "front" THEN FrontSink(prev, ev.step, ev.details)
  ELSE BackSink(prev, ev.step, ev.details)

\* the three mock sales of fetchEbaySales
mockSales == <<"item1", "item2", "item3">>

\* an analyzeCard call of the page: the events it has still to emit and how
\* it ends
Run(type, queue, ok) == [type |-> type, queue |-> queue, ok |-> ok, settled |-> FALSE]

PageInit ==
  /\ pc = "page"
  /\ frontImage = EmptyImage
  /\ backImage = EmptyImage
  /\ hasSink = FALSE
  /\ events = <<>>
  /\ calls = <<>>
  /\ ocr = <<>>
  /\ details = <<>>
  /\ liveWorkers = 0
  /\ tensorFront = <<>>
  /\ scores = <<>>
  /\ outcome = Pending
  /\ liveBuffers = {}
  /\ loaded = <<>>
  /\ PageIdle

\* reader.onload of a front upload, up to the first await inside
\* analyzeCard: the first progress event is emitted before that await
UploadFront(data) ==
  /\ pc = "page"
  /\ uploads < MaxUploads
  /\ uploads' = uploads + 1
  /\ images' = [images EXCEPT !.front = data]
  /\ isAnalyzing' = TRUE
  /\ LET emitted == ProgressSteps(EmptyImage, FALSE)
     IN  /\ analysisSteps' = SinkOf("front", FrontStepList, Head(emitted))
         /\ runs' = Append(runs, Run("front", Tail(emitted), TRUE))
  /\ UNCHANGED << analysis, salesHistory >>
  /\ UNCHANGED pipeVars

\* reader.onload of a back upload; the analysis starts only when a front
\* image is there
UploadBack(data, dec) ==
  /\ pc = "page"
  /\ uploads < MaxUploads
  /\ uploads' = uploads + 1
  /\ images' = [images EXCEPT !.back = data]
  /\ IF images.front # Null
     THEN LET emitted == ProgressSteps(data, dec.ok)
          IN  /\ isAnalyzing' = TRUE
              /\ analysisSteps' = SinkOf("back", BackStepList, Head(emitted))
              /\ runs' = Append(runs, Run("back", Tail(emitted), dec.ok))
     ELSE UNCHANGED << isAnalyzing, analysisSteps, runs >>
  /\ UNCHANGED << analysis, salesHistory >>
  /\ UNCHANGED pipeVars

\* one onProgress call of a running analysis reaches its sink
DeliverProgress(r) ==
  /\ pc = "page"
  /\ ~runs[r].settled
  /\ runs[r].queue # <<>>
  /\ analysisSteps' = SinkOf(runs[r].type, analysisSteps, Head(runs[r].queue))
  /\ runs' = [runs EXCEPT ![r].queue = Tail(@)]
  /\ UNCHANGED << images, analysis, salesHistory, isAnalyzing, uploads >>
  /\ UNCHANGED pipeVars

\* the await of analyzeCard completes: the rest of the try block, or the
\* catch block, and the finally block
SettleRun(r) ==
  /\ pc = "page"
  /\ ~runs[r].settled
  /\ runs[r].queue = <<>>
  /\ runs' = [runs EXCEPT ![r].settled = TRUE]
  /\ isAnalyzing' = FALSE
  /\ IF runs[r].type = "front"
     THEN /\ analysis' = Null
          /\ salesHistory' = salesHistory
     ELSE IF runs[r].ok
          THEN /\ analysis' = "result"
               /\ salesHistory' = mockSales
          ELSE UNCHANGED << analysis, salesHistory >>
  /\ UNCHANGED << images, analysisSteps, uploads >>
  /\ UNCHANGED pipeVars

removeImage(type) ==
  /\ pc = "page"
  /\ images[type] # Null
  /\ images' = [images EXCEPT ![type] = Null]
  /\ analysis' = Null
  /\ salesHistory' = <<>>
  /\ UNCHANGED << isAnalyzing, analysisSteps, runs, uploads >>
  /\ UNCHANGED pipeVars

PageNext ==
  \/ \E data \in FrontImages \ {EmptyImage} : UploadFront(data)
  \/ \E data \in BackImages \ {EmptyImage} :
       \E dec \in DecodeOutcomes(IF images.front = Null THEN EmptyImage ELSE images.front) :
         UploadBack(data, dec)
  \/ \E r \in 1..Len(runs) : DeliverProgress(r)
  \/ \E r \in 1..Len(runs) : SettleRun(r)
  \/ \E type \in {"front", "back"} : removeImage(type)

SpecPage == PageInit /\ [][PageNext]_vars

(***************************************************************************)
(* Properties                                                              *)
(***************************************************************************)
Started == pc \notin {"idle", "text", "features", "aggregate", "page"}
Finished == pc \in {"done", "failed"}

\* C1: analyzeCard with a valid front image and an empty back image does
\* not fail; it returns a record whose centering, corners, edges, surface
\* and grade are all 0 and whose cardDetails are those of the front pass,
\* and it has called the OCR collaborator for the front image only.
C1_TextOnlyResult ==
  (Started /\ frontImage # EmptyImage /\ backImage = EmptyImage)
    => /\ pc # "failed"
       /\ outcome.kind # "error"
       /\ "back" \notin DOMAIN details
       /\ Finished =>
            /\ outcome.kind = "result"
            /\ \A n \in ScoreNames \cup {"grade"} : outcome.value[n] = Num(0)
            /\ outcome.value.cardDetails = details["front"]
            /\ calls = << <<"ocr", frontImage>> >>

C1_Witness ==
  /\ pc = "done"
  /\ frontImage # EmptyImage
  /\ backImage = EmptyImage
  /\ outcome.kind = "result"
  /\ outcome.value.grade = Num(0)
  /\ outcome.value.cardDetails.name = L_Pikachu

\* C2: analyzeCard with an empty front image fails before any stage runs:
\* no collaborator (OCR, decode) is called and no record is returned.
C2_ValidationFirst ==
  (Started /\ frontImage = EmptyImage)
    => /\ calls = <<>>
       /\ outcome.kind # "result"

\* C3: every feature score computed from a normalized grid is a number in
\* the closed range [0, 10].
InScoreRange(x) == ~x.nan /\ 0 <= x.v /\ x.v <= 10 * Unit

C3_ScoresInRange == \A n \in DOMAIN scores : InScoreRange(scores[n])

\* the corner, edge and surface scores are in range on every grid
C3_OtherScoresInRange ==
  \A n \in DOMAIN scores \ {"centering"} : InScoreRange(scores[n])

\* C4: the grade of the result is the mean of the four unrounded scores
\* rounded once to the nearest tenth (the upper one on a tie), each score
\* of the result is its own score rounded to the nearest tenth, NaN stays
\* NaN, and the scores (10, 8, 6, 4) give the grade 7.0.
Tenth == Unit \div 10
HalfTenth == Unit \div 20

\* r is x rounded to the nearest tenth, where x = num / den
NearestTenth(r, num, den) ==
  /\ ~r.nan
  /\ r.v % Tenth = 0
  /\ r.v * den - HalfTenth * den <= num
  /\ num < r.v * den + HalfTenth * den

C4_GradeIsRoundedMean ==
  (pc = "done" /\ outcome.kind = "result" /\ DOMAIN scores = ScoreNames)
    => LET r == outcome.value
       IN  /\ \A n \in ScoreNames :
                IF scores[n].nan THEN r[n] = NaN
                ELSE NearestTenth(r[n], scores[n].v, 1)
           /\ IF \E n \in ScoreNames : scores[n].nan
              THEN r.grade = NaN
              ELSE NearestTenth(r.grade,
                                scores["centering"].v + scores["corners"].v
                                  + scores["edges"].v + scores["surface"].v, 4)
           /\ (/\ scores["centering"] = Num(10 * Unit)
               /\ scores["corners"] = Num(8 * Unit)
               /\ scores["edges"] = Num(6 * Unit)
               /\ scores["surface"] = Num(4 * Unit))
                => r.grade = Num(7 * Unit)

C4_Witness ==
  /\ pc = "done"
  /\ outcome.kind = "result"
  /\ scores["centering"] = Num(10 * Unit)
  /\ scores["corners"] = Num(8 * Unit)
  /\ scores["edges"] = Num(6 * Unit)
  /\ scores["surface"] = Num(4 * Unit)
  /\ outcome.value.grade = Num(7 * Unit)

\* C5: after a back pass, number and set of the merged cardDetails are the
\* back pass's value where that value is non-empty and the front pass's
\* value otherwise.
C5_BackOverwritesWhenNonEmpty ==
  ("back" \in DOMAIN details)
    => /\ details["card"].number =
            IF details["back"].number # <<>> THEN details["back"].number
            ELSE details["front"].number
       /\ details["card"].set =
            IF details["back"].set # <<>> THEN details["back"].set
            ELSE details["front"].set
       /\ outcome.kind = "result" =>
            /\ outcome.value.cardDetails.number = details["card"].number
            /\ outcome.value.cardDetails.set = details["card"].set

\* the number is overwritten and the set is kept in one merge
C5_Witness ==
  /\ pc = "done"
  /\ "back" \in DOMAIN details
  /\ details["front"].number # <<>>
  /\ details["back"].number # <<>>
  /\ details["back"].number # details["front"].number
  /\ outcome.value.cardDetails.number = details["back"].number
  /\ details["back"].set = <<>>
  /\ details["front"].set # <<>>
  /\ outcome.value.cardDetails.set = details["front"].set

\* C6: name and card category of the merged cardDetails are always those
\* of the front pass, whatever the back pass delivered.
C6_NameAndCategoryFromFront ==
  ("card" \in DOMAIN details /\ Started)
    => /\ details["card"].name = details["front"].name
       /\ details["card"].cardType = details["front"].cardType
       /\ outcome.kind = "result" =>
            /\ outcome.value.cardDetails.name = details["front"].name
            /\ outcome.value.cardDetails.cardType = details["front"].cardType

C6_Witness ==
  /\ pc = "done"
  /\ "back" \in DOMAIN details
  /\ ocr["back"].ok
  /\ details["back"].name # <<>>
  /\ details["back"].name # details["front"].name
  /\ details["back"].cardType = "sports"
  /\ details["front"].cardType = "trading"
  /\ outcome.value.cardDetails.name = details["front"].name
  /\ outcome.value.cardDetails.cardType = "trading"

(***************************************************************************)
(* Properties of the text extractor, stated on the recognized text         *)
(***************************************************************************)
Parsed == pc = "parsed" /\ ocr["front"].ok
RecognizedText == ocr["front"].text
RecognizedLines == TextLines(ocr["front"].text)

LetterPairs == { <<UpperCase[i], LowerCase[i]>> : i \in 1..26 }
SameLetter(a, b) == a = b \/ <<a, b>> \in LetterPairs \/ <<b, a>> \in LetterPairs

\* w occurs in s at position p, letter case ignored
OccursAt(s, w, p) ==
  /\ p + Len(w) - 1 <= Len(s)
  /\ \A k \in 1..Len(w) : SameLetter(s[p + k - 1], w[k])

\* w occurs somewhere in s, letter case ignored
ContainsIgnoringCase(s, w) == \E p \in 1..Len(s) : OccursAt(s, w, p)

\* least element of a non-empty set of line numbers
Least(S) == CHOOSE i \in S : \A j \in S : i <= j

W_rookie == <<"r","o","o","k","i","e">>
W_pokemon == <<"p","o","k","e","m","o","n">>
W_set == <<"s","e","t">>
W_series == <<"s","e","r","i","e","s">>
W_year == <<"y","e","a","r">>
W_season == <<"s","e","a","s","o","n">>
SportsWords ==
  { W_rookie, W_season, <<"s","t","a","t","s">>, <<"t","e","a","m">>,
    <<"r","e","c","o","r","d">> }
TradingWords ==
  { W_pokemon, <<"m","a","g","i","c">>, <<"y","u","g","i","o","h">>, <<"m","t","g">> }

\* C7: the category is sports if the text contains a sports word in any
\* letter case, otherwise trading if it contains a trading word, otherwise
\* unset; a text with words of both sets is sports.
C7_CategoryClassification ==
  Parsed =>
    LET text == RecognizedText
    IN  details["front"].cardType =
          IF \E w \in SportsWords : ContainsIgnoringCase(text, w) THEN "sports"
          ELSE IF \E w \in TradingWords : ContainsIgnoringCase(text, w) THEN "trading"
          ELSE "unset"

C7_Witness ==
  /\ Parsed
  /\ ContainsIgnoringCase(RecognizedText, W_rookie)
  /\ ContainsIgnoringCase(RecognizedText, W_pokemon)
  /\ details["front"].cardType = "sports"

\* C8: the name is the first of the first three lines that is longer than
\* 3, has no copyright mark, no run of three digits and neither "set" nor
\* "series" in any letter case; if none of the three qualifies the name is
\* the initial empty string, whatever the later lines are.
C8_Qualifies(l) ==
  /\ Len(l) > 3
  /\ \A i \in 1..Len(l) : l[i] # "©"
  /\ ~\E i \in 1..(Len(l) - 2) : {l[i], l[i + 1], l[i + 2]} \subseteq Digits
  /\ ~ContainsIgnoringCase(l, W_set)
  /\ ~ContainsIgnoringCase(l, W_series)

C8_Candidates(ls) == { i \in 1..Len(ls) : i <= 3 /\ C8_Qualifies(ls[i]) }

C8_NameFromFirstThreeLines ==
  Parsed =>
    LET ls == RecognizedLines
        cand == C8_Candidates(ls)
    IN  IF cand = {} THEN details["front"].name = <<>>
        ELSE details["front"].name = ls[Least(cand)]

\* no line of the first three qualifies, the fourth does, the name is empty
C8_Witness ==
  /\ Parsed
  /\ Len(RecognizedLines) >= 4
  /\ C8_Candidates(RecognizedLines) = {}
  /\ C8_Qualifies(RecognizedLines[4])
  /\ details["front"].name = <<>>

\* C9: the number comes from the first line that has a digit and contains
\* neither "year" nor "season" in any letter case: it is the digit run, or
\* digits/digits, at the first digit of that line.  Lines with "year" or
\* "season" are skipped, later lines do not change it.
C9_Qualifies(l) ==
  /\ \E i \in 1..Len(l) : l[i] \in Digits
  /\ ~ContainsIgnoringCase(l, W_year)
  /\ ~ContainsIgnoringCase(l, W_season)

\* n is the number token at the first digit of l
C9_IsNumberOf(n, l) ==
  \E p \in 1..Len(l) :
    LET e == p + Len(n) - 1
    IN  /\ l[p] \in Digits
        /\ \A q \in 1..(p - 1) : l[q] \notin Digits
        /\ Len(n) >= 1
        /\ e <= Len(l)
        /\ n = SubSeq(l, p, e)
        /\ \A k \in 1..Len(n) : n[k] \in Digits \cup {"/"}
        /\ n[Len(n)] \in Digits
        /\ Cardinality({k \in 1..Len(n) : n[k] = "/"}) <= 1
        /\ (e < Len(l) => l[e + 1] \notin Digits)
        /\ ((\A k \in 1..Len(n) : n[k] # "/") /\ e + 2 <= Len(l))
             => ~(l[e + 1] = "/" /\ l[e + 2] \in Digits)

C9_Candidates(ls) == { i \in 1..Len(ls) : C9_Qualifies(ls[i]) }

C9_NumberFromFirstQualifyingLine ==
  Parsed =>
    LET ls == RecognizedLines
        cand == C9_Candidates(ls)
    IN  IF cand = {} THEN details["front"].number = <<>>
        ELSE C9_IsNumberOf(details["front"].number, ls[Least(cand)])

\* a line with digits is skipped for "year"/"season", a later line gives the
\* number and a still later line with another number does not change it
C9_Witness ==
  /\ Parsed
  /\ LET ls == RecognizedLines
         cand == C9_Candidates(ls)
     IN  /\ cand # {}
         /\ \E i \in 1..Len(ls) :
               /\ i < Least(cand)
               /\ \E k \in 1..Len(ls[i]) : ls[i][k] \in Digits
         /\ \E j \in cand :
               /\ j > Least(cand)
               /\ ~C9_IsNumberOf(details["front"].number, ls[j])
         /\ C9_IsNumberOf(details["front"].number, ls[Least(cand)])

\* a set marker of length m stands at position p of l
C10_MarkerAt(l, p, m) ==
  \/ m = 3 /\ OccursAt(l, W_set, p)
  \/ m = 6 /\ OccursAt(l, W_series, p)
  \/ m = 1 /\ l[p] = "©"

C10_HasMarker(l) == \E p \in 1..Len(l), m \in {1, 3, 6} : C10_MarkerAt(l, p, m)

\* t is the trimmed text after the leftmost marker of l
C10_IsTrailingText(t, l) ==
  \E p \in 1..Len(l), m \in {1, 3, 6} :
    /\ C10_MarkerAt(l, p, m)
    /\ \A q \in 1..(p - 1), k \in {1, 3, 6} : ~C10_MarkerAt(l, q, k)
    /\ t = Trim(Rest(l, p + m))

C10_Candidates(ls) == { i \in 1..Len(ls) : C10_HasMarker(ls[i]) }

\* C10 as stated: the set is the trimmed text after the marker on the first
\* line that contains a marker.
C10_SetIsTrailingText ==
  Parsed =>
    LET ls == RecognizedLines
        cand == C10_Candidates(ls)
    IN  cand # {} => C10_IsTrailingText(details["front"].set, ls[Least(cand)])

\* C10 as amended: the set is the trimmed text after the leftmost marker on
\* the first line that contains a marker, or "Unknown Set" when nothing
\* follows that marker; the scan stops at that line, later lines do not
\* change the set.
C10_SetIsTrailingTextOrSentinel ==
  Parsed =>
    LET ls == RecognizedLines
        cand == C10_Candidates(ls)
    IN  cand # {} =>
          IF C10_IsTrailingText(<<>>, ls[Least(cand)])
          THEN details["front"].set = UnknownSet
          ELSE C10_IsTrailingText(details["front"].set, ls[Least(cand)])

\* two lines carry a marker with different trailing texts; the first wins
C10_Witness ==
  /\ Parsed
  /\ LET ls == RecognizedLines
         cand == C10_Candidates(ls)
     IN  /\ cand # {}
         /\ ~C10_IsTrailingText(<<>>, ls[Least(cand)])
         /\ C10_IsTrailingText(details["front"].set, ls[Least(cand)])
         /\ \E j \in cand :
               /\ j > Least(cand)
               /\ ~C10_IsTrailingText(<<>>, ls[j])
               /\ ~C10_IsTrailingText(details["front"].set, ls[j])

(***************************************************************************)
(* Properties of the fallbacks and of the failures                         *)
(***************************************************************************)
Sentinels == {UnknownCard, UnknownSet, Unknown}

\* C11: when the OCR collaborator fails or recognizes no text, name, set and
\* number of the extraction are "Unknown" sentinel strings and the category
\* is unset.
C11_SentinelsWithoutText ==
  (pc = "parsed" /\ (~ocr["front"].ok \/ ocr["front"].text = <<>>))
    => /\ details["front"].name \in Sentinels
       /\ details["front"].set \in Sentinels
       /\ details["front"].number \in Sentinels
       /\ details["front"].cardType = "unset"

\* the half that holds: a failure of the OCR collaborator gives the sentinels
C11_SentinelsOnOcrFailure ==
  (pc = "parsed" /\ ~ocr["front"].ok) => details["front"] = FallbackDetails

\* C12: in every record analyzeCard returns, name, set and number are never
\* the empty string: each is an extracted value or a sentinel.
C12_NoEmptyField ==
  (outcome.kind = "result")
    => /\ outcome.value.cardDetails.name # <<>>
       /\ outcome.value.cardDetails.set # <<>>
       /\ outcome.value.cardDetails.number # <<>>

\* C13: a failure of the OCR collaborator never fails analyzeCard: the call
\* goes on after every OCR outcome with the fallback details for that side,
\* and a failed call has failed in the image decode.
LastCall == calls[Len(calls)]

C13_OcrFailureIsAbsorbed ==
  /\ (calls # <<>> /\ LastCall[1] = "ocr")
       => /\ pc \notin {"failed"}
          /\ outcome.kind # "error"
  /\ \A side \in DOMAIN ocr : ~ocr[side].ok => details[side] = FallbackDetails
  /\ (pc = "failed")
       => /\ outcome.kind = "error"
          /\ calls # <<>>
          /\ LastCall[1] = "decode"
          /\ outcome.message[1] = "Error preprocessing image"

\* both OCR passes failed and the call returned a scored record
C13_Witness ==
  /\ pc = "done"
  /\ outcome.kind = "result"
  /\ DOMAIN ocr = {"front", "back"}
  /\ ~ocr["front"].ok
  /\ ~ocr["back"].ok
  /\ DOMAIN scores = ScoreNames
  /\ outcome.value.cardDetails = FallbackDetails

\* C14: a front image that cannot be decoded, or has no area, fails the call
\* whatever the back image is: no record is returned and the error names
\* the front side.
CannotDecode(image) == \A dec \in DecodeOutcomes(image) : ~dec.ok

C14_DecodeFailureIsFatal ==
  (Finished /\ frontImage # EmptyImage /\ CannotDecode(frontImage))
    => /\ outcome.kind = "error"
       /\ \E k \in 1..Len(outcome.message) : outcome.message[k] = "front"

\* the part that holds: with a back image the undecodable front image fails
\* the call in preprocessImage
C14_FatalWithBackImage ==
  (Finished /\ backImage # EmptyImage /\ CannotDecode(frontImage))
    => /\ outcome.kind = "error"
       /\ outcome.message[1] = "Error preprocessing image"

(***************************************************************************)
(* Properties of the feature scores                                        *)
(***************************************************************************)
Grid == tensorFront[1]

\* the intensity of a pixel and the total intensity of a grid
Intensity(t, i, j) == (t[i][j][1] + t[i][j][2] + t[i][j][3]) \div 3
TotalIntensity(t) ==
  SumSeq([k \in 1..(GridSize * GridSize) |->
            Intensity(t, ((k - 1) \div GridSize) + 1, ((k - 1) % GridSize) + 1)])

\* the intensity-weighted centroid over the two spatial axes, 0-based
CentroidRow(t) ==
  (SumSeq([k \in 1..(GridSize * GridSize) |->
             ((k - 1) \div GridSize)
               * Intensity(t, ((k - 1) \div GridSize) + 1, ((k - 1) % GridSize) + 1)])
     * Unit) \div TotalIntensity(t)
CentroidCol(t) ==
  (SumSeq([k \in 1..(GridSize * GridSize) |->
             ((k - 1) % GridSize)
               * Intensity(t, ((k - 1) \div GridSize) + 1, ((k - 1) % GridSize) + 1)])
     * Unit) \div TotalIntensity(t)

\* max(0, 10 - distance((row, col), (112, 112)) / 22.4)
ScoreOfCentroid(row, col) ==
  LET dr == row - 112 * Unit
      dc == col - 112 * Unit
      distance == ISqrt(MulFix(dr, dr) \div Unit + MulFix(dc, dc) \div Unit) * Unit
      score == 10 * Unit - (distance * 10) \div 224
  IN  IF score < 0 THEN 0 ELSE score

\* C15: the centering score of a grid is max(0, 10 - d / 22.4) with d the
\* distance of the grid's intensity-weighted centroid from (112, 112); a
\* centroid at (0, 0) scores 0.
C15_CenteringFromCentroid ==
  (pc = "features" /\ "centering" \in DOMAIN scores /\ TotalIntensity(Grid) > 0)
    => LET expected == ScoreOfCentroid(CentroidRow(Grid), CentroidCol(Grid))
           got == scores["centering"]
       IN  /\ ~got.nan
           /\ got.v - expected <= Tenth
           /\ expected - got.v <= Tenth
           /\ (CentroidRow(Grid) = 0 /\ CentroidCol(Grid) = 0) => got.v = 0

\* what the code computes instead: not a number, on every grid
C15_CenteringIsNaN ==
  (pc = "features" /\ "centering" \in DOMAIN scores) => scores["centering"] = NaN

\* every pixel has the same colour
IsUniform(t) == \A i \in Rows, j \in Rows : t[i][j] = t[1][1]

\* about 0: a score that is reported as 0.0
AboutZero(x) == ~x.nan /\ 0 - HalfTenth < x.v /\ x.v < HalfTenth

\* C16: on a uniform grid the corner score, the edge score and the surface
\* score are about 0.
C16_UniformGridScoresZero ==
  (pc = "features" /\ IsUniform(Grid))
    => \A n \in DOMAIN scores \cap {"corners", "edges", "surface"} : AboutZero(scores[n])

\* the part that holds: the all-black grid scores 0 in corners, edges, surface
C16_BlackGridScoresZero ==
  (pc = "features" /\ IsUniform(Grid) /\ Grid[1][1] = Black)
    => \A n \in DOMAIN scores \cap {"corners", "edges", "surface"} : scores[n] = Num(0)

\* C17: when analyzeCard returns or fails after the normalized image was
\* created, the normalized image and every tensor the extractors created
\* have been disposed.
ExtractorBuffers == CenteringBuffers \cup CornersBuffers \cup EdgesBuffers \cup SurfaceBuffers

C17_BuffersReleased ==
  (Finished /\ calls # <<>> /\ LastCall[1] = "decode")
    => /\ tensorFront = <<>>
       /\ liveBuffers \cap ExtractorBuffers = {}

\* the part that holds: the normalized image itself is disposed on return
C17_NormalizedImageReleased == Finished => tensorFront = <<>>

\* the score a feature extractor computes from a grid
ScoreOf(n, t) ==
  CASE n = "centering" -> calculateCentering(t)
    [] n = "corners" -> calculateCornersScore(t)
    [] n = "edges" -> calculateEdgesScore(t)
    [] n = "surface" -> calculateSurfaceScore(t)

\* C18: in whatever order the four extractors run, each one computes its
\* score from the same grid, leaves the grid and the scores of the others
\* as they are, and the four scores and the grade at the end are those of
\* the grid.
C18_OrderIndependent ==
  [][ (pc = "features")
        => /\ tensorFront' = tensorFront
           /\ \A n \in DOMAIN scores : scores'[n] = scores[n]
           /\ \A n \in DOMAIN scores' \ DOMAIN scores : scores'[n] = ScoreOf(n, tensorFront[1])
           /\ (DOMAIN scores' = ScoreNames)
                => GradeOf(scores') = GradeOf([n \in ScoreNames |-> ScoreOf(n, tensorFront[1])])
    ]_vars

\* surface and edges have run before centering and corners, on a grid on
\* which both find something
C18_Witness ==
  /\ pc = "features"
  /\ DOMAIN scores = {"surface", "edges"}
  /\ scores["surface"].v > 0
  /\ scores["edges"].v > 0

(***************************************************************************)
(* Properties of the progress events                                       *)
(***************************************************************************)
StageOrder ==
  << "Text Extraction", "Image Processing", "Centering Analysis", "Corner Analysis",
     "Edge Detection", "Surface Analysis" >>

HasEvent(step) == \E k \in 1..Len(events) : events[k].step = step
FirstEvent(step) == Least({k \in 1..Len(events) : events[k].step = step})
HasCalled(what) == \E k \in 1..Len(calls) : calls[k][1] = what

\* the stages that have run so far
StageHasRun(step) ==
  CASE step = "Text Extraction" -> HasCalled("ocr")
    [] step = "Image Processing" -> HasCalled("decode")
    [] step = "Centering Analysis" -> "centering" \in DOMAIN scores
    [] step = "Corner Analysis" -> "corners" \in DOMAIN scores
    [] step = "Edge Detection" -> "edges" \in DOMAIN scores
    [] step = "Surface Analysis" -> "surface" \in DOMAIN scores

\* first events of the emitted stages stand in the stage order
FirstEventsInOrder ==
  \A a \in 1..Len(StageOrder), b \in 1..Len(StageOrder) :
    (a < b /\ HasEvent(StageOrder[a]) /\ HasEvent(StageOrder[b]))
      => FirstEvent(StageOrder[a]) < FirstEvent(StageOrder[b])

\* C19: with a sink and both images, every stage that has run has emitted
\* its event, and the first events of the stages follow the order Text
\* Extraction, Image Processing, Centering, Corners, Edges, Surface.
C19_EventsFollowStageOrder ==
  (Started /\ hasSink /\ backImage # EmptyImage)
    => /\ \A a \in 1..Len(StageOrder) : StageHasRun(StageOrder[a]) => HasEvent(StageOrder[a])
       /\ FirstEventsInOrder

\* the part that holds: every stage but the normalization emits its event
\* when it runs, and the first events are in the stage order
C19_EventsOfTheOtherStages ==
  (Started /\ hasSink /\ backImage # EmptyImage)
    => /\ \A a \in 1..Len(StageOrder) :
            (StageOrder[a] # "Image Processing" /\ StageHasRun(StageOrder[a]))
              => HasEvent(StageOrder[a])
       /\ ~HasEvent("Image Processing")
       /\ FirstEventsInOrder

\* the events the pipeline has emitted are those the page's runs deliver
ProgressStepsMatchPipeline ==
  (hasSink /\ Started)
    => LET full == ProgressSteps(backImage, pc # "failed")
       IN  /\ Len(events) <= Len(full)
           /\ \A k \in 1..Len(events) : events[k].step = full[k].step
           /\ (pc = "done" => Len(events) = Len(full))

(***************************************************************************)
(* Properties of the page                                                  *)
(***************************************************************************)
UniqueStepNames(list) ==
  \A i \in 1..Len(list), j \in 1..Len(list) : list[i].step = list[j].step => i = j

\* C20: the step list never holds two entries with the same step name; a
\* progress event leaves every entry at its place, and an entry that is
\* completed stays completed, until an upload sets a new list.
C20_StepListKeyedByName ==
  [][ /\ UniqueStepNames(analysisSteps')
      /\ (uploads' = uploads)
           => /\ Len(analysisSteps') >= Len(analysisSteps)
              /\ \A k \in 1..Len(analysisSteps) :
                    /\ analysisSteps'[k].step = analysisSteps[k].step
                    /\ analysisSteps[k].completed => analysisSteps'[k].completed
    ]_vars

\* the sink of a front upload has appended its step to the list of a back
\* upload, and a repeated event has completed an entry
C20_Witness ==
  /\ pc = "page"
  /\ Len(analysisSteps) = Len(BackStepList) + 1
  /\ analysisSteps[Len(analysisSteps)].step = "Card Identification"
  /\ analysisSteps[Len(analysisSteps)].completed
  /\ analysisSteps[1].completed

(***************************************************************************)
(* Properties of the outcome of a call                                     *)
(***************************************************************************)
StepNames(es) == [k \in 1..Len(es) |-> es[k].step]

\* C21: a call ends with a complete record or with one error, never with
\* both or neither; when it has failed, the sink has received exactly the
\* events of the stages before the failing one, none is missing and none
\* was added after the failure.
C21_OneOutcome ==
  /\ ~Finished => outcome = Pending
  /\ (pc = "done")
       => /\ outcome.kind = "result"
          /\ DOMAIN outcome.value = ScoreNames \cup {"grade", "cardDetails"}
          /\ {"name", "set", "number"} \subseteq DOMAIN outcome.value.cardDetails
  /\ (pc = "failed")
       => /\ outcome.kind = "error"
          /\ events = IF hasSink THEN events ELSE <<>>
          /\ hasSink => StepNames(events) = StepNames(ProgressSteps(backImage, FALSE))

\* a call with a sink has failed in the decode after its four text events
C21_Witness ==
  /\ pc = "failed"
  /\ hasSink
  /\ outcome.kind = "error"
  /\ Len(events) = 4
  /\ events[4].step = "Text Extraction"

\* C22: when every collaborator answers, a started call eventually returns
\* or fails, also when the image fails to load.
C22_EventuallyEnds == Started ~> Finished

\* the image failed to load and the call has failed
C22_Witness ==
  /\ pc = "failed"
  /\ loaded # <<>>
  /\ loaded[1].message = "Failed to load image"
  /\ outcome.kind = "error"

\* what a call does as a function of its two images and of what the
\* collaborators answered, the sink left aside
ExpectedCalls(front, back) ==
  << <<"ocr", front>> >>
  \o (IF back # EmptyImage THEN << <<"ocr", back>>, <<"decode", front>> >> ELSE <<>>)

ExpectedDetails(back, answers) ==
  IdentifyCard(IF back # EmptyImage
               THEN MergeBack(extractCardText(answers["front"]), extractCardText(answers["back"]))
               ELSE extractCardText(answers["front"]))

ExpectedOutcome(back, answers, dec) ==
  IF back = EmptyImage THEN Returned(TextOnlyResult(ExpectedDetails(back, answers)))
  ELSE IF dec[1].ok
       THEN Returned(AssembleResult([n \in ScoreNames |-> ScoreOf(n, dec[1].grid)],
                                    ExpectedDetails(back, answers)))
       ELSE Thrown(<<"Error preprocessing image", dec[1].message>>)

\* C23: the outcome of a call and its collaborator calls are determined by
\* the two images and the collaborators' answers alone: with a sink and
\* without one they are the same, and without a sink no event exists.
C23_SinkDoesNotMatter ==
  /\ Finished
       => /\ calls = ExpectedCalls(frontImage, backImage)
          /\ outcome = ExpectedOutcome(backImage, ocr, loaded)
  /\ (Started /\ ~hasSink) => events = <<>>

\* a call without a sink has returned a scored record
C23_Witness ==
  /\ pc = "done"
  /\ ~hasSink
  /\ events = <<>>
  /\ outcome.kind = "result"
  /\ DOMAIN scores = ScoreNames
  /\ outcome.value.corners.v > 0

BackMerged == {"front", "back", "card"} \subseteq DOMAIN details

\* no line of the back text holds a digit
BackTextHasNoNumber ==
  /\ ocr["back"].ok
  /\ \A i \in 1..Len(TextLines(ocr["back"].text)) :
       NumberPatternMatch(TextLines(ocr["back"].text)[i]) = NoMatch

\* no line of the back text holds set, series or the copyright mark
BackTextHasNoSetMarker ==
  /\ ocr["back"].ok
  /\ \A i \in 1..Len(TextLines(ocr["back"].text)) :
       SetPatternMatch(TextLines(ocr["back"].text)[i]) = NoMatch

\* C25: when OCR of the back image fails, or the back text holds no number
\* or no set marker, the merged details keep the number and the set of the
\* front pass.
C25_BackWithoutEvidenceKeepsFront ==
  BackMerged
    => /\ (~ocr["back"].ok \/ BackTextHasNoNumber)
            => details["card"].number = details["front"].number
       /\ (~ocr["back"].ok \/ BackTextHasNoSetMarker)
            => details["card"].set = details["front"].set

\* the part of C25 about a recognized back text: without a number the
\* front's number stays, without a set marker the front's set stays
C25_RecognizedBackKeepsFront ==
  BackMerged
    => /\ BackTextHasNoNumber => details["card"].number = details["front"].number
       /\ BackTextHasNoSetMarker => details["card"].set = details["front"].set

\* a failed back pass has replaced a number and a set read from the front
C25_FailedBackReplacesFront ==
  /\ BackMerged
  /\ ~ocr["back"].ok
  /\ ocr["front"].ok
  /\ details["front"].number # <<>>
  /\ details["front"].set # <<>>
  /\ details["card"].number = Unknown
  /\ details["card"].set = UnknownSet

\* C26: in every returned result the unrounded grade lies between the
\* smallest and the largest of the four unrounded scores, and the reported
\* grade is a number between 0 and 10.
C26_GradeWithinScores ==
  (pc = "done" /\ outcome.kind = "result")
    => /\ ~outcome.value.grade.nan
       /\ 0 <= outcome.value.grade.v
       /\ outcome.value.grade.v <= 10 * Unit
       /\ DOMAIN scores = ScoreNames
            => /\ ~GradeOf(scores).nan
               /\ \E n \in ScoreNames : ~scores[n].nan /\ scores[n].v <= GradeOf(scores).v
               /\ \E n \in ScoreNames : ~scores[n].nan /\ GradeOf(scores).v <= scores[n].v

\* a full analysis has returned a grade that is not a number
C26_GradeIsNaN ==
  /\ pc = "done"
  /\ outcome.kind = "result"
  /\ DOMAIN scores = ScoreNames
  /\ scores["centering"].nan
  /\ ~scores["corners"].nan
  /\ ~scores["edges"].nan
  /\ ~scores["surface"].nan
  /\ outcome.value.grade = NaN

\* the result of a front-only call reports the grade 0
C26_TextOnlyGradeIsZero ==
  (pc = "done" /\ outcome.kind = "result" /\ scores = <<>>)
    => outcome.value.grade = Num(0)

\* C28: every OCR worker created during an extraction is terminated before
\* the extraction returns, on the success path and on the failure paths: no
\* worker is alive between two steps of the analysis.
C28_WorkersTerminated == liveWorkers = 0

\* recognize() has failed after createWorker() succeeded and the worker of
\* that extraction is still alive when the analysis has ended
C28_WorkerLeftAlive ==
  /\ Finished
  /\ \E side \in DOMAIN ocr : ~ocr[side].ok /\ ocr[side].stage = "recognize"
  /\ liveWorkers > 0

\* the part of C28 about the other paths: when no recognize() call failed,
\* no worker is alive
C28_TerminatedUnlessRecognizeFails ==
  (\A side \in DOMAIN ocr : ocr[side].ok \/ ocr[side].stage = "createWorker")
    => liveWorkers = 0

\* the four scores of the grid the decoder delivered
ScoresOfGrid(grid) == [n \in ScoreNames |-> ScoreOf(n, grid)]

\* C27: the scores and the grade of a full analysis are determined by the
\* front image alone: the only image decoded is the front image, and what
\* the call returns for centering, corners, edges, surface and grade is
\* computed from what the decoder delivered for it, whatever the non-empty
\* back image is and whatever its OCR did.
C27_ScoresFromFrontOnly ==
  (Finished /\ backImage # EmptyImage)
    => /\ \A i \in 1..Len(calls) : calls[i][1] = "decode" => calls[i][2] = frontImage
       /\ Len(loaded) = 1
       /\ loaded[1] \in DecodeOutcomes(frontImage)
       /\ IF loaded[1].ok
          THEN /\ outcome.kind = "result"
               /\ \A n \in ScoreNames :
                    outcome.value[n] = ToFixed1(ScoresOfGrid(loaded[1].grid)[n])
               /\ outcome.value.grade = ToFixed1(GradeOf(ScoresOfGrid(loaded[1].grid)))
          ELSE outcome.kind = "error"

\* a scored record has been returned although the back image cannot be
\* decoded and its OCR failed
C27_Witness ==
  /\ pc = "done"
  /\ backImage = CorruptImage
  /\ ~ocr["back"].ok
  /\ loaded[1].ok
  /\ outcome.kind = "result"
  /\ outcome.value.corners.v > 0
  /\ outcome.value.corners = ToFixed1(ScoresOfGrid(loaded[1].grid)["corners"])

\* an analysis started by an upload whose await has not completed yet
InFlight(r) == r \in 1..Len(runs) /\ ~runs[r].settled

\* C29: in the page isAnalyzing is true exactly while at least one analysis
\* is in flight: the end of one analysis does not clear the flag while
\* another one is running, and the flag is false when none is running.
C29_FlagWhileInFlight ==
  pc = "page" => (isAnalyzing <=> \E r \in 1..Len(runs) : InFlight(r))

\* the front analysis has ended and cleared the flag while the analysis
\* started by the back upload is still running
C29_FlagClearedWhileRunning ==
  /\ pc = "page"
  /\ ~isAnalyzing
  /\ \E r \in 1..Len(runs) : runs[r].type = "front" /\ runs[r].settled
  /\ \E r \in 1..Len(runs) : runs[r].type = "back" /\ InFlight(r)

\* the part of C29 about the idle page: with no analysis in flight the
\* flag is false
C29_IdleMeansFlagFalse ==
  (pc = "page" /\ ~\E r \in 1..Len(runs) : InFlight(r)) => ~isAnalyzing

\* C30: in the page, whenever the analysis state is non-null both images
\* are present: an analysis that is in flight when an image is removed does
\* not set the analysis state afterwards.
C30_AnalysisNeedsBothImages ==
  (pc = "page" /\ analysis # Null) => (images.front # Null /\ images.back # Null)

\* the back image was removed during the analysis, which then stored its
\* result and the sales history
C30_AnalysisAfterRemoval ==
  /\ pc = "page"
  /\ images.back = Null
  /\ analysis = "result"
  /\ salesHistory = mockSales

\* the part of C30 about removeImage itself: the step that removes an
\* image clears the analysis state and the sales history
C30_RemovalClears ==
  [][(\E type \in {"front", "back"} : images[type] # Null /\ images'[type] = Null)
       => (analysis' = Null /\ salesHistory' = <<>>)]_vars

====
